---------------------------- MODULE Spec2Model ----------------------------
(***************************************************************************)
(* A model of matthew-bot (src/main.py): the URL classifier, the quality   *)
(* menu builder and the per-user session table driven by the Telegram      *)
(* handlers.                                                               *)
(*                                                                         *)
(* Every handler is a coroutine.  The code between two awaits runs         *)
(* atomically; at an await on the media adapter (get_video_info,           *)
(* download_media) or on a file delivery the coroutine is suspended and    *)
(* other handlers may run.  The handlers take no lock and keep no          *)
(* generation number, so the model lets handlers of the same user and of   *)
(* different users overlap at these awaits.  An await on a short channel   *)
(* call (reply_text, edit_message_text, query.answer) is folded into the   *)
(* atomic block it ends.                                                   *)
(*                                                                         *)
(* Spec is the bot: the session table driven by the handlers.  RankSpec    *)
(* and ClassifySpec apply create_quality_keyboard and get_platform, which  *)
(* are pure functions, to arguments drawn from bounded sets.               *)
(*                                                                         *)
(* Strings that the code inspects (URLs, format ids) are sequences of      *)
(* one-character strings or of digits.  Sizes are in units of 1024 bytes   *)
(* (TLC integers are 32 bits wide and MAX_FILE_SIZE is 2^31 bytes).        *)
(***************************************************************************)
EXTENDS Integers, Sequences, FiniteSets, TLC

(***************************************************************************)
(* Bounds of the model.                                                    *)
(***************************************************************************)
\* updates (text messages, /cancel commands, button presses) that the bot
\* receives during one behaviour
MaxUpdates == 4

Users == {1, 2}

(***************************************************************************)
(* Python string helpers.                                                  *)
(***************************************************************************)
LowerLetters ==
    <<"a", "b", "c", "d", "e", "f", "g", "h", "i", "j", "k", "l", "m",
      "n", "o", "p", "q", "r", "s", "t", "u", "v", "w", "x", "y", "z">>
UpperLetters ==
    <<"A", "B", "C", "D", "E", "F", "G", "H", "I", "J", "K", "L", "M",
      "N", "O", "P", "Q", "R", "S", "T", "U", "V", "W", "X", "Y", "Z">>

\* str.lower() on one character
LowerChar(c) ==
    IF \E i \in 1..Len(UpperLetters) : UpperLetters[i] = c
    THEN LowerLetters[CHOOSE i \in 1..Len(UpperLetters) : UpperLetters[i] = c]
    ELSE c

Lower(s) == [i \in 1..Len(s) |-> LowerChar(s[i])]

\* s[i:].startswith(p), i counted from 1
StartsWithAt(s, p, i) ==
    /\ i + Len(p) - 1 <= Len(s)
    /\ \A k \in 1..Len(p) : s[i + k - 1] = p[k]

\* p in s
Contains(s, p) == \E i \in 1..(Len(s) + 1) : StartsWithAt(s, p, i)

\* s.replace(old, ""): every non-overlapping occurrence, left to right
RECURSIVE RemoveAllFrom(_, _, _)
RemoveAllFrom(s, old, i) ==
    IF i > Len(s) THEN << >>
    ELSE IF StartsWithAt(s, old, i) THEN RemoveAllFrom(s, old, i + Len(old))
    ELSE <<s[i]>> \o RemoveAllFrom(s, old, i + 1)

RemoveAll(s, old) == RemoveAllFrom(s, old, 1)

Letters ==
    {LowerLetters[i] : i \in 1..Len(LowerLetters)}
    \cup {UpperLetters[i] : i \in 1..Len(UpperLetters)}
\* the characters of a scheme after its first letter (no model URL has a digit)
SchemeChars == Letters \cup {"+", "-", "."}

\* index of the first ':' of s, 0 when there is none
FirstColon(s) ==
    IF \E i \in 1..Len(s) : s[i] = ":"
    THEN CHOOSE i \in 1..Len(s) : s[i] = ":" /\ \A j \in 1..(i - 1) : s[j] # ":"
    ELSE 0

\* urllib.parse.urlsplit: the text after "scheme:", or all of it without a scheme
AfterScheme(s) ==
    LET i == FirstColon(s) IN
    IF i > 1 /\ s[1] \in Letters /\ \A j \in 1..(i - 1) : s[j] \in SchemeChars
    THEN SubSeq(s, i + 1, Len(s))
    ELSE s

\* urlparse(url).netloc: what follows a leading "//" up to the first of / ? #
NetLoc(url) ==
    LET rest == AfterScheme(url) IN
    IF ~StartsWithAt(rest, <<"/", "/">>, 1) THEN << >>
    ELSE LET ends == {i \in 3..Len(rest) : rest[i] \in {"/", "?", "#"}}
             stop == IF ends = {} THEN Len(rest) + 1
                     ELSE CHOOSE i \in ends : \A j \in ends : i <= j
         IN  SubSeq(rest, 3, stop - 1)

(***************************************************************************)
(* MediaDownloader.get_platform                                            *)
(***************************************************************************)
\* the dict of __init__, in insertion order
supported_platforms ==
    << <<  <<"y","o","u","t","u","b","e",".","c","o","m">>, "YouTube"  >>,
       <<  <<"y","o","u","t","u",".","b","e">>,             "YouTube"  >>,
       <<  <<"t","w","i","t","t","e","r",".","c","o","m">>, "Twitter/X" >>,
       <<  <<"x",".","c","o","m">>,                         "Twitter/X" >>,
       <<  <<"t","i","k","t","o","k",".","c","o","m">>,     "TikTok"   >>,
       <<  <<"n","e","w","g","r","o","u","n","d","s",".","c","o","m">>,
                                                            "Newgrounds" >> >>

\* the value None of get_platform
NoPlatform == "None"

Domain(url) == RemoveAll(Lower(NetLoc(url)), <<"w", "w", "w", ".">>)

get_platform(url) ==
    LET domain == Domain(url)
        hits == {i \in 1..Len(supported_platforms) :
                    Contains(domain, supported_platforms[i][1])}
    IN  IF hits = {} THEN NoPlatform
        ELSE supported_platforms[CHOOSE i \in hits : \A j \in hits : i <= j][2]

(***************************************************************************)
(* Metadata and TelegramBot.create_quality_keyboard                        *)
(***************************************************************************)
\* MAX_FILE_SIZE = 2 * 1024 * 1024 * 1024 bytes, here in units of 1024 bytes
MAX_FILE_SIZE == 2 * 1024 * 1024

\* One entry of info['formats'].  A codec is "none", a codec name, or
\* "absent" (f.get returns None); a number that is absent or None is 0.
Format(id, acodec, vcodec, abr, height, filesize, filesize_approx, ext) ==
    [format_id |-> id, acodec |-> acodec, vcodec |-> vcodec, abr |-> abr,
     height |-> height, filesize |-> filesize,
     filesize_approx |-> filesize_approx, ext |-> ext]

\* f.get('filesize') or f.get('filesize_approx', 0)
FileSizeOf(f) == IF f.filesize # 0 THEN f.filesize ELSE f.filesize_approx

\* f"{size_mb:.1f}": tenths of a MiB, rounded
SizeTenthsMB(filesize) == (filesize * 10 + 512) \div 1024

\* Python's str < str on format ids (digit sequences)
RECURSIVE StrLess(_, _)
StrLess(a, b) ==
    IF b = << >> THEN FALSE
    ELSE IF a = << >> THEN TRUE
    ELSE IF Head(a) # Head(b) THEN Head(a) < Head(b)
    ELSE StrLess(Tail(a), Tail(b))

\* mutant of IsAudioFormat: the test of vcodec is missing
IsAudioFormatWithVideo(f) == f.acodec # "none"

\* line 221: an audio stream and no video stream
IsAudioFormat(f) == f.acodec # "none" /\ f.vcodec = "none"
\* line 241: any video stream
IsVideoFormat(f) == f.vcodec # "none"

\* lines 224-229: the (button_text, format_id) tuple of a listed audio format
AudioEntry(f) ==
    [text |-> [ext |-> f.ext, quality |-> f.abr,
               size |-> SizeTenthsMB(FileSizeOf(f))],
     format_id |-> f.format_id, height |-> 0]

\* lines 244-249: the (button_text, format_id, height) tuple of a video format
VideoEntry(f) ==
    [text |-> [ext |-> f.ext, quality |-> f.height,
               size |-> SizeTenthsMB(FileSizeOf(f))],
     format_id |-> f.format_id, height |-> f.height]

\* mutant of AudioListed: the size test of line 226 is missing
AudioListedAnySize(f) == IsAudioFormat(f)

\* line 226
AudioListed(f) ==
    IsAudioFormat(f) /\ FileSizeOf(f) # 0 /\ FileSizeOf(f) <= MAX_FILE_SIZE
\* line 246
VideoListed(f) ==
    /\ IsVideoFormat(f)
    /\ FileSizeOf(f) # 0 /\ FileSizeOf(f) <= MAX_FILE_SIZE /\ f.height # 0

\* the loops of lines 220-229 and 240-249
RECURSIVE audio_formats_of(_)
audio_formats_of(formats) ==
    IF formats = << >> THEN << >>
    ELSE (IF AudioListed(Head(formats)) THEN <<AudioEntry(Head(formats))>>
          ELSE << >>) \o audio_formats_of(Tail(formats))

RECURSIVE video_formats_of(_)
video_formats_of(formats) ==
    IF formats = << >> THEN << >>
    ELSE (IF VideoListed(Head(formats)) THEN <<VideoEntry(Head(formats))>>
          ELSE << >>) \o video_formats_of(Tail(formats))

\* line 232: key=lambda x: x[1], the format id
AudioKeyLess(x, y) == StrLess(x.format_id, y.format_id)
\* line 252: key=lambda x: x[2], the height
VideoKeyLess(x, y) == x.height < y.height

\* list.sort(key, reverse=True): descending and stable.  Insert e behind
\* every element whose key is not smaller than e's.
RECURSIVE InsertDesc(_, _, _)
InsertDesc(e, sorted, audio) ==
    IF sorted = << >> THEN <<e>>
    ELSE IF (IF audio THEN AudioKeyLess(Head(sorted), e)
             ELSE VideoKeyLess(Head(sorted), e))
         THEN <<e>> \o sorted
         ELSE <<Head(sorted)>> \o InsertDesc(e, Tail(sorted), audio)

RECURSIVE SortDesc(_, _)
SortDesc(list, audio) ==
    IF list = << >> THEN << >>
    ELSE InsertDesc(list[Len(list)],
                    SortDesc(SubSeq(list, 1, Len(list) - 1), audio), audio)

\* [:5]
MenuLimit == 5
FirstN(list, n) == SubSeq(list, 1, IF Len(list) < n THEN Len(list) ELSE n)

\* The download rows of the keyboard, in order; the Back/Cancel row that
\* line 258 always appends is implied.
create_quality_keyboard(info, category) ==
    IF category = "audio"
    THEN FirstN(SortDesc(audio_formats_of(info.formats), TRUE), MenuLimit)
    ELSE IF category = "video"
    THEN FirstN(SortDesc(video_formats_of(info.formats), FALSE), MenuLimit)
    ELSE << >>

(***************************************************************************)
(* The inputs of the model: three URLs and what the media adapter knows    *)
(* about them.                                                             *)
(***************************************************************************)
\* https://x.com/a
UrlA == <<"h","t","t","p","s",":","/","/","x",".","c","o","m","/","a">>
\* https://WWW.youtu.be/b
UrlB == <<"h","t","t","p","s",":","/","/","W","W","W",".",
          "y","o","u","t","u",".","b","e","/","b">>
\* https://v.com/c
UrlC == <<"h","t","t","p","s",":","/","/","v",".","c","o","m","/","c">>

Urls == {UrlA, UrlB, UrlC}

\* get_video_info returns {} when extraction raised (lines 60-62)
EmptyInfo == [nonempty |-> FALSE, title |-> "", formats |-> << >>]

\* the media item of UrlA has an audio and a video format that can be
\* listed; the one of UrlB has a video format and an audio format of unknown
\* size
InfoA ==
    [nonempty |-> TRUE, title |-> "a",
     formats |-> << Format(<<1, 4, 0>>, "mp4a", "none", 128, 0, 3072, 0, "m4a"),
                    Format(<<1, 8>>, "mp4a", "avc1", 0, 360, 0, 51200, "mp4") >>]
InfoB ==
    [nonempty |-> TRUE, title |-> "b",
     formats |-> << Format(<<2, 2>>, "mp4a", "avc1", 0, 720, 102400, 0, "mp4"),
                    Format(<<2, 5, 1>>, "opus", "none", 160, 0, 0, 0, "webm") >>]

\* what ydl.extract_info(url, download=False) yields when it does not raise
InfoOf(url) == IF url = UrlA THEN InfoA ELSE InfoB

\* download_media returns None (NoFile) or the path of a file of some size
NoFile == -1
DownloadResults == {NoFile, MAX_FILE_SIZE, MAX_FILE_SIZE + 1}

(***************************************************************************)
(* State                                                                   *)
(***************************************************************************)
VARIABLES
    user_sessions,  \* self.user_sessions: user id -> session dict
    menu_state,     \* history: the menu state last given to each user's session
    messages,       \* the keyboards of the messages sent in answer to a URL
    fetches,        \* handle_url coroutines suspended in get_video_info
    downloads,      \* download_and_send coroutines, each with its position
    temp_dirs,      \* the directories of tempfile.mkdtemp() that exist
    n_attempts,     \* download_and_send calls so far
    n_updates,      \* updates received so far
    cancelled,      \* history: the sessions deleted by a cancel
    last,           \* history: the handler step that led to this state
    call            \* a call of a pure function on its own: arguments, result

vars == <<user_sessions, menu_state, messages, fetches, downloads, temp_dirs,
          n_attempts, n_updates, cancelled, last, call>>

\* no pure function is being called on its own
NoCall == [fn |-> "-"]

\* callback_data of the buttons: "cancel", "back", "category_<category>",
\* "download_<format_id>"
Data(kind, category, format_id) ==
    [kind |-> kind, category |-> category, format_id |-> format_id]
NoData == Data("-", "-", << >>)

\* The keyboard of a message: "format" (create_format_keyboard), "quality"
\* (create_quality_keyboard, with its category and the format ids of its
\* download buttons) or "none".  edit_message_text without reply_markup
\* removes the keyboard; the text then shown is in last.outcome.
Message(text, category, options) ==
    [menu |-> IF text \in {"format", "quality"} THEN text ELSE "none",
     category |-> category, options |-> options]

\* the keyboard of create_format_keyboard (lines 197-210)
create_format_keyboard ==
    {Data("category", "audio", << >>), Data("category", "video", << >>),
     Data("cancel", "-", << >>)}

\* the buttons a message shows
Buttons(msg) ==
    IF msg.menu = "format" THEN create_format_keyboard
    ELSE IF msg.menu = "quality"
    THEN {Data("download", "-", msg.options[i]) : i \in 1..Len(msg.options)}
         \cup {Data("back", "-", << >>), Data("cancel", "-", << >>)}
    ELSE {}

\* the dict stored at lines 167-171; sid stands for the identity of the dict
\* object (the number of the message its URL was answered with)
Session(url, info, platform, sid) ==
    [url |-> url, info |-> info, platform |-> platform, sid |-> sid]

\* del self.user_sessions[user_id]
Del(sessions, u) == [v \in DOMAIN sessions \ {u} |-> sessions[v]]
\* self.user_sessions[user_id] = session
Put(sessions, u, session) ==
    [v \in DOMAIN sessions \cup {u} |->
        IF v = u THEN session ELSE sessions[v]]

NoUrl == << >>

\* The record kept in last: the handler block that ran (op) and for whom;
\* what it was given (the kind and category of the callback data, the URL
\* of the text message, whether get_video_info returned metadata); the text
\* it showed (outcome); the session object and the download attempt that a
\* coroutine of download_and_send belongs to; and the session table and the
\* user's menu state before the block ran.
Step(op, u, data, url, info_ok, outcome, sid, attempt) ==
    [op |-> op, user |-> u, kind |-> data.kind, category |-> data.category,
     url |-> url, info_ok |-> info_ok,
     outcome |-> outcome, sid |-> sid, attempt |-> attempt,
     before |-> user_sessions, menu_before |-> menu_state[u]]

\* the bot after TelegramBot.__init__ (lines 83-85): no session, no handler
\* running
Started ==
    /\ user_sessions = << >>
    /\ menu_state = [u \in Users |-> "None"]
    /\ messages = << >>
    /\ fetches = {}
    /\ downloads = {}
    /\ temp_dirs = {}
    /\ n_attempts = 0
    /\ n_updates = 0
    /\ cancelled = {}
    /\ last = [op |-> "init", user |-> 0, kind |-> "-", category |-> "-",
               url |-> NoUrl, info_ok |-> FALSE,
               outcome |-> "-", sid |-> 0, attempt |-> 0,
               before |-> << >>, menu_before |-> "None"]

Init == Started /\ call = NoCall

(***************************************************************************)
(* TelegramBot.handle_url, lines 140-157: up to the await of               *)
(* get_video_info.  The reply to an unsupported URL is a new message       *)
(* without buttons; it is kept in last.outcome only.                       *)
(***************************************************************************)
handle_url(u, url) ==
    LET platform == get_platform(url) IN
    /\ n_updates < MaxUpdates
    /\ n_updates' = n_updates + 1
    /\ UNCHANGED call
    /\ IF platform = NoPlatform
       THEN /\ last' = Step("handle_url", u, NoData, url, FALSE,
                            "unsupported", 0, 0)
            /\ UNCHANGED <<user_sessions, menu_state, messages, fetches,
                           downloads, temp_dirs, n_attempts, cancelled>>
       ELSE /\ messages' = Append(messages, Message("processing", "-", << >>))
            /\ fetches' = fetches \cup
                   {[user |-> u, url |-> url, platform |-> platform,
                     msg |-> Len(messages) + 1]}
            /\ last' = Step("handle_url", u, NoData, url, FALSE,
                            "processing", 0, 0)
            /\ UNCHANGED <<user_sessions, menu_state, downloads, temp_dirs,
                           n_attempts, cancelled>>

\* mutant of StoreSession: the session is stored before info is looked at
StoreSessionUnchecked(sessions, f, info) ==
    Put(sessions, f.user, Session(f.url, info, f.platform, f.msg))

\* lines 162-171: no session for empty metadata, else the user's session is
\* replaced by a new dict
StoreSession(sessions, f, info) ==
    IF ~info.nonempty THEN sessions
    ELSE Put(sessions, f.user, Session(f.url, info, f.platform, f.msg))

(***************************************************************************)
(* TelegramBot.handle_url, lines 161-195: get_video_info has returned.     *)
(* raises: building or sending the menu raised (lines 174-189) and the     *)
(* except clause replaced the text (lines 191-195).                        *)
(***************************************************************************)
handle_url_info(f, info, raises) ==
    /\ f \in fetches
    /\ fetches' = fetches \ {f}
    /\ user_sessions' = StoreSession(user_sessions, f, info)
    /\ IF ~info.nonempty
       THEN /\ ~raises
            /\ messages' = [messages EXCEPT
                    ![f.msg] = Message("extract_failed", "-", << >>)]
            /\ last' = Step("handle_url_info", f.user, NoData, f.url, FALSE,
                            "extract_failed", 0, 0)
            /\ UNCHANGED menu_state
       ELSE /\ menu_state' = [menu_state EXCEPT ![f.user] = "AwaitingCategory"]
            /\ messages' = [messages EXCEPT ![f.msg] =
                    Message(IF raises THEN "error" ELSE "format", "-", << >>)]
            /\ last' = Step("handle_url_info", f.user, NoData, f.url, TRUE,
                            IF raises THEN "error" ELSE "format", 0, 0)
    /\ UNCHANGED <<downloads, temp_dirs, n_attempts, n_updates, cancelled,
                   call>>

(***************************************************************************)
(* TelegramBot.cancel_operation, lines 131-138: the /cancel command.       *)
(***************************************************************************)
cancel_operation(u) ==
    /\ n_updates < MaxUpdates
    /\ n_updates' = n_updates + 1
    /\ IF u \in DOMAIN user_sessions
       THEN /\ user_sessions' = Del(user_sessions, u)
            /\ menu_state' = [menu_state EXCEPT ![u] = "Cancelled"]
            /\ cancelled' = cancelled \cup {user_sessions[u].sid}
            /\ last' = Step("cancel_operation", u, NoData, NoUrl, FALSE,
                            "cancelled", 0, 0)
       ELSE /\ last' = Step("cancel_operation", u, NoData, NoUrl, FALSE,
                            "no_operation", 0, 0)
            /\ UNCHANGED <<user_sessions, menu_state, cancelled>>
    /\ UNCHANGED <<messages, fetches, downloads, temp_dirs, n_attempts, call>>

\* lines 273-277: the cancel button
callback_cancel(u, m, data) ==
    /\ IF u \in DOMAIN user_sessions
       THEN /\ user_sessions' = Del(user_sessions, u)
            /\ menu_state' = [menu_state EXCEPT ![u] = "Cancelled"]
            /\ cancelled' = cancelled \cup {user_sessions[u].sid}
       ELSE UNCHANGED <<user_sessions, menu_state, cancelled>>
    /\ messages' = [messages EXCEPT ![m] = Message("cancelled", "-", << >>)]
    /\ last' = Step("handle_callback", u, data, NoUrl, FALSE,
                    "cancelled", 0, 0)
    /\ UNCHANGED <<fetches, downloads, temp_dirs, n_attempts>>

\* mutant of callback_expired: the check of lines 279-281 is missing and the
\* press is answered with the format menu
callback_expired_unchecked(u, m, data) ==
    /\ messages' = [messages EXCEPT ![m] = Message("format", "-", << >>)]
    /\ last' = Step("handle_callback", u, data, NoUrl, FALSE,
                    "format", 0, 0)
    /\ UNCHANGED <<user_sessions, menu_state, fetches, downloads, temp_dirs,
                   n_attempts, cancelled>>

\* lines 279-281
callback_expired(u, m, data) ==
    /\ messages' = [messages EXCEPT ![m] = Message("expired", "-", << >>)]
    /\ last' = Step("handle_callback", u, data, NoUrl, FALSE,
                    "expired", 0, 0)
    /\ UNCHANGED <<user_sessions, menu_state, fetches, downloads, temp_dirs,
                   n_attempts, cancelled>>

\* lines 286-291
callback_back(u, m, data) ==
    /\ messages' = [messages EXCEPT ![m] = Message("format", "-", << >>)]
    /\ menu_state' = [menu_state EXCEPT ![u] = "AwaitingCategory"]
    /\ last' = Step("handle_callback", u, data, NoUrl, FALSE,
                    "format", 0, 0)
    /\ UNCHANGED <<user_sessions, fetches, downloads, temp_dirs, n_attempts,
                   cancelled>>

\* lines 293-299
callback_category(u, m, data) ==
    LET keyboard == create_quality_keyboard(user_sessions[u].info,
                                            data.category)
    IN  /\ messages' = [messages EXCEPT ![m] =
                Message("quality", data.category,
                        [i \in 1..Len(keyboard) |-> keyboard[i].format_id])]
        /\ menu_state' = [menu_state EXCEPT ![u] =
                IF data.category = "audio" THEN "AwaitingQuality_audio"
                ELSE "AwaitingQuality_video"]
        /\ last' = Step("handle_callback", u, data, NoUrl, FALSE,
                        "quality", 0, 0)
        /\ UNCHANGED <<user_sessions, fetches, downloads, temp_dirs,
                       n_attempts, cancelled>>

(***************************************************************************)
(* lines 301-303 and download_and_send, lines 305-317: up to the await of  *)
(* download_media.  The coroutine keeps the session dict it was called     *)
(* with and the user id of the query.                                      *)
(***************************************************************************)
download_and_send(u, m, session, format_id) ==
    /\ n_attempts' = n_attempts + 1
    /\ messages' = [messages EXCEPT ![m] = Message("downloading", "-", << >>)]
    /\ temp_dirs' = temp_dirs \cup {n_attempts + 1}
    /\ downloads' = downloads \cup
            {[attempt |-> n_attempts + 1, user |-> u, msg |-> m,
              session |-> session, format_id |-> format_id,
              file_size |-> NoFile, pc |-> "download_media"]}
    /\ menu_state' = [menu_state EXCEPT ![u] = "Downloading"]
    /\ last' = Step("handle_callback", u, Data("download", "-", format_id),
                    NoUrl, FALSE, "downloading", session.sid, n_attempts + 1)
    /\ UNCHANGED <<user_sessions, fetches, cancelled>>

(***************************************************************************)
(* TelegramBot.handle_callback, lines 265-303: user u presses a button of  *)
(* message m.  The handler takes the user from the update and nothing      *)
(* from the message, so a menu that is still shown can be pressed at any   *)
(* time and, in a group chat, by any user.  The await of query.answer()    *)
(* at line 268 comes before any access to the state and is not a step.     *)
(***************************************************************************)
handle_callback(u, m, data) ==
    /\ n_updates < MaxUpdates
    /\ n_updates' = n_updates + 1
    /\ UNCHANGED call
    /\ m \in 1..Len(messages)
    /\ data \in Buttons(messages[m])
    /\ IF data.kind = "cancel" THEN callback_cancel(u, m, data)
       ELSE IF u \notin DOMAIN user_sessions THEN callback_expired(u, m, data)
       ELSE IF data.kind = "back" THEN callback_back(u, m, data)
       ELSE IF data.kind = "category" THEN callback_category(u, m, data)
       ELSE download_and_send(u, m, user_sessions[u], data.format_id)

\* mutant of RemoveTempDir: the directory is left behind
RemoveTempDirOmitted(dirs, d) == dirs

\* lines 359-360
RemoveTempDir(dirs, d) == dirs \ {d.attempt}

\* mutant of ClearSession: the whole table is cleared (user_sessions.clear())
ClearSessionOfAll(sessions, d) == << >>

\* mutant of ClearSession: the session is not deleted
ClearSessionOmitted(sessions, d) == sessions

\* lines 363-365
ClearSession(sessions, d) ==
    IF d.user \in DOMAIN sessions THEN Del(sessions, d.user) ELSE sessions

(***************************************************************************)
(* download_and_send, lines 357-365: the finally clause, which ends the    *)
(* coroutine d.  It runs in the block that leaves the try statement.       *)
(***************************************************************************)
Finally(d) ==
    /\ temp_dirs' = RemoveTempDir(temp_dirs, d)
    /\ user_sessions' = ClearSession(user_sessions, d)
    /\ menu_state' = [menu_state EXCEPT ![d.user] =
            IF d.user \in DOMAIN user_sessions /\ d.user \notin DOMAIN user_sessions'
            THEN "Terminated" ELSE @]
    /\ downloads' = downloads \ {d}

\* mutant of DownloadOutcome: the size test of line 325 is missing
DownloadOutcomeUnchecked(result) ==
    IF result = NoFile THEN "failed" ELSE "uploading"

\* lines 319-332: the text shown once download_media has returned
DownloadOutcome(result) ==
    IF result = NoFile THEN "failed"
    ELSE IF result > MAX_FILE_SIZE THEN "too_large"
    ELSE "uploading"

(***************************************************************************)
(* download_and_send, lines 317-332: download_media has returned.  No      *)
(* file, or too large a file: the text is set and the function returns     *)
(* through the finally clause.  Otherwise the text is set to "uploading"   *)
(* and the coroutine, which now has the file and its size, waits for the   *)
(* delivery of the file.                                                   *)
(***************************************************************************)
download_media_returns(d, result) ==
    /\ d \in downloads
    /\ d.pc = "download_media"
    /\ LET outcome == DownloadOutcome(result)
       IN  /\ last' = Step("download_media_returns", d.user, NoData, NoUrl,
                           FALSE, outcome, d.session.sid, d.attempt)
           /\ IF outcome = "uploading"
              THEN /\ downloads' = (downloads \ {d}) \cup
                                        {[d EXCEPT !.pc = "reply",
                                                   !.file_size = result]}
                   /\ UNCHANGED <<user_sessions, menu_state, temp_dirs>>
              ELSE Finally(d)
    /\ UNCHANGED <<messages, fetches, n_attempts, n_updates, cancelled, call>>

(***************************************************************************)
(* download_and_send, lines 335-365: reply_audio or reply_video has sent   *)
(* the file and the text is set to "completed", or it raised and the       *)
(* except clause set the text to "failed"; then the finally clause.        *)
(***************************************************************************)
reply_media(d, raises) ==
    /\ d \in downloads
    /\ d.pc = "reply"
    /\ last' = Step("reply_media", d.user, NoData, NoUrl, FALSE,
                    IF raises THEN "failed" ELSE "completed",
                    d.session.sid, d.attempt)
    /\ Finally(d)
    /\ UNCHANGED <<messages, fetches, n_attempts, n_updates, cancelled, call>>

AllData ==
    {Data("cancel", "-", << >>), Data("back", "-", << >>),
     Data("category", "audio", << >>), Data("category", "video", << >>)}
    \cup {Data("download", "-", InfoA.formats[i].format_id) :
            i \in 1..Len(InfoA.formats)}
    \cup {Data("download", "-", InfoB.formats[i].format_id) :
            i \in 1..Len(InfoB.formats)}

Next ==
    \/ \E u \in Users, url \in Urls : handle_url(u, url)
    \/ \E f \in fetches : \E info \in {EmptyInfo, InfoOf(f.url)},
          raises \in BOOLEAN : handle_url_info(f, info, raises)
    \/ \E u \in Users : cancel_operation(u)
    \/ \E u \in Users, m \in 1..Len(messages), data \in AllData :
          handle_callback(u, m, data)
    \/ \E d \in downloads, result \in DownloadResults :
          download_media_returns(d, result)
    \/ \E d \in downloads, raises \in BOOLEAN : reply_media(d, raises)

Spec == Init /\ [][Next]_vars

(***************************************************************************)
(* create_quality_keyboard on its own, applied to the metadata of a media  *)
(* item: a list of at most MaxFormats formats.  The format at position i   *)
(* has the id FormatIds[i] (the ids of one media item are distinct) and    *)
(* any of the FormatKinds.                                                 *)
(***************************************************************************)
MaxFormats == 6

FormatIds ==
    << <<1, 4, 0>>, <<2, 5, 1>>, <<9>>, <<1, 8>>, <<2, 2>>, <<1, 3, 9>>,
       <<2, 4, 9>>, <<3>> >>

\* what the fields read at lines 221-224 and 241-244 can be: an audio
\* stream with its size in filesize, with only filesize_approx, or too
\* large; a video stream alone or with audio, its size at the limit, below
\* it or unknown, its height known or not
FormatKinds ==
    {Format(<< >>, "mp4a", "none", 128, 0, 3072, 0, "m4a"),
     Format(<< >>, "opus", "none", 320, 0, 0, 8192, "webm"),
     Format(<< >>, "opus", "none", 510, 0, MAX_FILE_SIZE + 1, 0, "webm"),
     Format(<< >>, "none", "vp9", 0, 720, MAX_FILE_SIZE, 0, "webm"),
     Format(<< >>, "mp4a", "avc1", 0, 360, 51200, 0, "mp4"),
     Format(<< >>, "mp4a", "avc1", 0, 1080, 0, 0, "mp4"),
     Format(<< >>, "absent", "avc1", 0, 0, 1024, 0, "mp4")}

\* info['formats'] of a media item with n formats of the given kinds
FormatsOf(n, kinds) ==
    [i \in 1..n |-> [kinds[i] EXCEPT !.format_id = FormatIds[i]]]

InfoWith(formats) == [nonempty |-> TRUE, title |-> "t", formats |-> formats]

RankInit ==
    /\ Started
    /\ \E n \in 0..MaxFormats : \E kinds \in [1..n -> FormatKinds] :
          call = [fn |-> "info", info |-> InfoWith(FormatsOf(n, kinds))]

\* keyboard = self.create_quality_keyboard(info, category), line 295
CreateQualityKeyboard(category) ==
    /\ call.fn = "info"
    /\ call' = [fn |-> "create_quality_keyboard", info |-> call.info,
                category |-> category,
                keyboard |-> create_quality_keyboard(call.info, category)]
    /\ UNCHANGED <<user_sessions, menu_state, messages, fetches, downloads,
                   temp_dirs, n_attempts, n_updates, cancelled, last>>

RankNext == \E category \in {"audio", "video"} : CreateQualityKeyboard(category)

RankSpec == RankInit /\ [][RankNext]_vars

(***************************************************************************)
(* get_platform on its own, applied to a URL put together from a prefix,   *)
(* a host of at most MaxParts parts and a suffix.                          *)
(***************************************************************************)
MaxParts == 3

\* "https://", "HTTP://", "//" and nothing
UrlPrefixes ==
    {<<"h", "t", "t", "p", "s", ":", "/", "/">>,
     <<"H", "T", "T", "P", ":", "/", "/">>,
     <<"/", "/">>, << >>}

\* "www.", "WWW.", "m.", "you", "tube.com", "youtu.be", "X.com", "v.com"
HostParts ==
    {<<"w", "w", "w", ".">>, <<"W", "W", "W", ".">>,
     <<"m", ".">>, <<"y", "o", "u">>,
     <<"t", "u", "b", "e", ".", "c", "o", "m">>,
     <<"y", "o", "u", "t", "u", ".", "b", "e">>,
     <<"X", ".", "c", "o", "m">>, <<"v", ".", "c", "o", "m">>}

\* nothing, "/a", "?q"
UrlSuffixes == {<< >>, <<"/", "a">>, <<"?", "q">>}

RECURSIVE HostsOf(_)
HostsOf(n) ==
    IF n = 0 THEN {<< >>}
    ELSE LET shorter == HostsOf(n - 1)
         IN  shorter \cup {h \o part : h \in shorter, part \in HostParts}

ClassifyInit ==
    /\ Started
    /\ \E prefix \in UrlPrefixes, host \in HostsOf(MaxParts),
          suffix \in UrlSuffixes :
          call = [fn |-> "url", url |-> prefix \o host \o suffix]

\* platform = self.downloader.get_platform(url), line 146
GetPlatform ==
    /\ call.fn = "url"
    /\ call' = [fn |-> "get_platform", url |-> call.url,
                platform |-> get_platform(call.url)]
    /\ UNCHANGED <<user_sessions, menu_state, messages, fetches, downloads,
                   temp_dirs, n_attempts, n_updates, cancelled, last>>

ClassifyNext == GetPlatform

ClassifySpec == ClassifyInit /\ [][ClassifyNext]_vars

(***************************************************************************)
(* Properties.  Each is a predicate on the state reached by a handler      *)
(* block; last tells which block it was and what the session table and     *)
(* the user's menu state were before it.                                   *)
(***************************************************************************)
HadSession == last.user \in DOMAIN last.before
HasSession == last.user \in DOMAIN user_sessions

\* a download attempt has ended: download_and_send has left its try
\* statement through the finally clause
AttemptEnded ==
    \/ last.op = "reply_media"
    \/ last.op = "download_media_returns"
       /\ last.outcome \in {"failed", "too_large"}

\* the file of a download attempt has been sent to the user
Delivered == last.op = "reply_media" /\ last.outcome = "completed"

\* a button press that called download_and_send
DownloadStarted == last.op = "handle_callback" /\ last.attempt # 0

C2_ChooseQualityOnlyFromAwaitingQuality ==
    DownloadStarted =>
        last.menu_before \in {"AwaitingQuality_audio", "AwaitingQuality_video"}

\* C3: a press of a category_<c> button is accepted only in AwaitingCategory;
\* with the session in AwaitingQuality or Downloading it renders no quality
\* menu and changes no state.
C3_ChooseCategoryOnlyFromAwaitingCategory ==
    (/\ last.op = "handle_callback"
     /\ last.kind = "category"
     /\ HadSession
     /\ last.menu_before # "AwaitingCategory")
    => /\ last.outcome # "quality"
       /\ menu_state[last.user] = last.menu_before
       /\ user_sessions = last.before

\* C4: for a user without a session, choose_category, go_back and
\* choose_quality all fail with SessionExpired: the user is told to restart,
\* no download is started and the session table is unchanged.
C4_NoSessionExpired ==
    (/\ last.op = "handle_callback"
     /\ last.kind \in {"category", "back", "download"}
     /\ ~HadSession)
    => /\ last.outcome = "expired"
       /\ last.attempt = 0
       /\ user_sessions = last.before

\* C4 witness: a user whose session was cancelled presses a download button
\* of a quality menu that is still shown, and is told that the session
\* expired.
C4_Witness ==
    /\ last.op = "handle_callback"
    /\ last.kind = "download"
    /\ ~HadSession
    /\ last.menu_before = "Cancelled"
    /\ last.outcome = "expired"

\* C5: after a cancel for a user, every further operation of that user
\* (choose_category, go_back, choose_quality and cancel itself) fails with
\* SessionExpired until a session is started for the user again.
C5_AfterCancelExpired ==
    (/\ last.op \in {"handle_callback", "cancel_operation"}
     /\ last.menu_before = "Cancelled"
     /\ ~HadSession)
    => last.outcome = "expired"

\* C6: when a started download attempt ends, by success, download failure,
\* oversize file or an exception during delivery, the user has no session
\* afterwards.
C6_SessionDestroyedAfterDownload == AttemptEnded => ~HasSession

\* C6 witness: delivery raised, and the session the user had before the
\* coroutine resumed is gone.
C6_Witness ==
    /\ last.op = "reply_media"
    /\ last.outcome = "failed"
    /\ HadSession
    /\ ~HasSession

\* C7: the temporary directory of a download attempt is removed on every
\* exit path: only attempts that are still running have a directory, and
\* the directory of an attempt that has just ended is gone.
C7_TempDirRemoved ==
    /\ \A a \in temp_dirs : \E d \in downloads : d.attempt = a
    /\ AttemptEnded => last.attempt \notin temp_dirs

\* C7 witness: an attempt ended on the oversize path, its directory is gone.
C7_Witness ==
    /\ last.op = "download_media_returns"
    /\ last.outcome = "too_large"
    /\ last.attempt \in 1..n_attempts
    /\ last.attempt \notin temp_dirs

C10_NoSessionOnRejectedUrl ==
    /\ (last.op = "handle_url" /\ get_platform(last.url) = NoPlatform)
       => (last.outcome = "unsupported" /\ user_sessions = last.before)
    /\ (last.op = "handle_url_info" /\ ~last.info_ok)
       => (last.outcome = "extract_failed" /\ user_sessions = last.before)

\* C10 witness: the metadata fetch of a URL failed for a user who has a
\* session, and the session is still there.
C10_Witness ==
    /\ last.op = "handle_url_info"
    /\ ~last.info_ok
    /\ last.outcome = "extract_failed"
    /\ HasSession

\* C11: an operation performed for user A (a URL and the session stored for
\* it, a category, back, download or cancel press, the /cancel command, the
\* end of a download) changes no other user's session: every other user has
\* a session after the operation exactly when they had one before, and it
\* is the same session with the same url, platform and metadata.
C11_OtherUsersUnchanged ==
    \A v \in Users \ {last.user} :
        /\ (v \in DOMAIN user_sessions) <=> (v \in DOMAIN last.before)
        /\ v \in DOMAIN user_sessions => user_sessions[v] = last.before[v]

\* C11 witness: the download of one user completed and destroyed that
\* user's session while another user had a session, which is still there.
C11_Witness ==
    /\ Delivered
    /\ HadSession
    /\ ~HasSession
    /\ \E v \in Users \ {last.user} :
          /\ v \in DOMAIN last.before
          /\ v \in DOMAIN user_sessions
          /\ user_sessions[v] = last.before[v]

\* C15: when a category is chosen and no encoding of that category survives
\* the filter, the user is shown a distinct "no acceptable format" message
\* and no message carries a quality menu without a download option.
C15_EmptyCandidateSetMessage ==
    (/\ last.op = "handle_callback"
     /\ last.kind = "category"
     /\ HadSession
     /\ create_quality_keyboard(last.before[last.user].info,
                                last.category) = << >>)
    => /\ last.outcome = "no_format"
       /\ \A m \in 1..Len(messages) :
             messages[m].menu = "quality" => messages[m].options # << >>

\* C16: a downloaded file larger than MAX_FILE_SIZE is never delivered.  The
\* only attempts that go on to deliver (reply_audio, reply_video) hold a
\* file that exists and passed the size check; an attempt whose file is too
\* large shows the oversize message and ends with the session torn down.
C16_OversizeNeverDelivered ==
    /\ \A d \in downloads :
          d.pc = "reply" =>
              d.file_size # NoFile /\ d.file_size <= MAX_FILE_SIZE
    /\ \A d \in downloads : d.pc = "download_media" => d.file_size = NoFile
    /\ (last.op = "download_media_returns" /\ last.outcome # "uploading")
       => /\ \A d \in downloads : d.attempt # last.attempt
          /\ ~HasSession

\* C16 witness: the file of an attempt was too large; the oversize message
\* is shown, the attempt has ended without a delivery and the session the
\* user had is gone.
C16_Witness ==
    /\ last.op = "download_media_returns"
    /\ last.outcome = "too_large"
    /\ HadSession
    /\ ~HasSession
    /\ \A d \in downloads : d.attempt # last.attempt

\* an encoding qualifies for audio if it carries an audio stream and no
\* video stream, and for video if it carries a video stream
QualifiesFor(f, category) ==
    IF category = "audio" THEN f.acodec # "none" /\ f.vcodec = "none"
    ELSE f.vcodec # "none"

OtherCategory(category) == IF category = "audio" THEN "video" ELSE "audio"

\* the encodings of info that the keyboard of a category offers
Offered(info, category) ==
    LET keyboard == create_quality_keyboard(info, category)
    IN  {f \in {info.formats[i] : i \in 1..Len(info.formats)} :
            \E k \in 1..Len(keyboard) : keyboard[k].format_id = f.format_id}

BackFromQuality ==
    /\ last.op = "handle_callback"
    /\ last.kind = "back"
    /\ HadSession
    /\ last.menu_before \in {"AwaitingQuality_audio", "AwaitingQuality_video"}

\* C17: a back press in AwaitingQuality(c) returns the session to
\* AwaitingCategory, shows the format menu and leaves url, platform and
\* metadata as they were; and the menu that a category press then shows is
\* computed from the session's metadata for that category alone: it offers
\* encodings that qualify for the pressed category and none that qualifies
\* for the other one.
C17_BackThenFreshCandidates ==
    /\ BackFromQuality
       => /\ user_sessions = last.before
          /\ menu_state[last.user] = "AwaitingCategory"
          /\ last.outcome = "format"
          /\ \A c \in {"audio", "video"} :
                \A f \in Offered(user_sessions[last.user].info, c) :
                    QualifiesFor(f, c) /\ ~QualifiesFor(f, OtherCategory(c))
    /\ (last.op = "handle_callback" /\ last.kind = "category" /\ HadSession)
       => /\ user_sessions = last.before
          /\ \E m \in 1..Len(messages) :
                /\ messages[m].menu = "quality"
                /\ messages[m].category = last.category
                /\ {messages[m].options[i] : i \in 1..Len(messages[m].options)}
                     = {f.format_id :
                          f \in Offered(user_sessions[last.user].info,
                                        last.category)}
          /\ \A f \in Offered(user_sessions[last.user].info, last.category) :
                /\ QualifiesFor(f, last.category)
                /\ ~QualifiesFor(f, OtherCategory(last.category))

\* C17 witness: back was pressed in the audio quality menu of a media item
\* that has candidates of both categories; the session is unchanged and in
\* AwaitingCategory.
C17_Witness ==
    /\ BackFromQuality
    /\ last.menu_before = "AwaitingQuality_audio"
    /\ menu_state[last.user] = "AwaitingCategory"
    /\ user_sessions = last.before
    /\ Offered(user_sessions[last.user].info, "audio") # {}
    /\ Offered(user_sessions[last.user].info, "video") # {}

\* C18: a back press for a user whose session is in AwaitingCategory or in
\* a terminal state is an error handled like SessionExpired: the user is
\* told that the session expired, and the format menu is not rendered as if
\* a transition had happened.
C18_BackOutsideQualityExpired ==
    (/\ last.op = "handle_callback"
     /\ last.kind = "back"
     /\ last.menu_before
           \notin {"AwaitingQuality_audio", "AwaitingQuality_video",
                    "Downloading"})
    => /\ last.outcome = "expired"
       /\ menu_state[last.user] = last.menu_before

KeyboardBuilt == call.fn = "create_quality_keyboard"

Encodings == {call.info.formats[i] : i \in 1..Len(call.info.formats)}

\* the encoding a keyboard entry stands for
EncodingOf(entry) == CHOOSE f \in Encodings : f.format_id = entry.format_id

\* the encodings of the returned entries
Returned == {EncodingOf(call.keyboard[i]) : i \in 1..Len(call.keyboard)}

\* the encoding has no size information at all
NoSizeInfo(f) == f.filesize = 0 /\ f.filesize_approx = 0

\* the encoding has a known, non-zero size that does not exceed the maximum
SizeAcceptable(f) ==
    \/ f.filesize \in 1..MAX_FILE_SIZE
    \/ f.filesize = 0 /\ f.filesize_approx \in 1..MAX_FILE_SIZE

\* C12: for every metadata and either category the keyboard has at most 5
\* download entries, each for an encoding with a known, non-zero size that
\* is at most MAX_FILE_SIZE; an encoding without size information is never
\* among them, whatever its bitrate or resolution.
C12_AtMostFiveSizedEntries ==
    KeyboardBuilt =>
        /\ Len(call.keyboard) <= 5
        /\ \A f \in Returned : SizeAcceptable(f)
        /\ \A f \in Encodings : NoSizeInfo(f) => f \notin Returned

\* C12 witness: six video encodings pass the filter, one of them exactly
\* MAX_FILE_SIZE large; five are returned, the largest among them.
C12_Witness ==
    /\ KeyboardBuilt
    /\ call.category = "video"
    /\ Cardinality({f \in Encodings : VideoListed(f)}) = 6
    /\ Len(call.keyboard) = 5
    /\ \E f \in Returned : f.filesize = MAX_FILE_SIZE

\* rank_key: the bitrate of an audio encoding, the vertical resolution of
\* a video encoding
RankKey(f) == IF call.category = "audio" THEN f.abr ELSE f.height

\* the encodings of the category that pass the size filter and have a
\* rank_key
Qualifying ==
    {f \in Encodings :
        /\ IF call.category = "audio" THEN IsAudioFormat(f)
           ELSE IsVideoFormat(f)
        /\ SizeAcceptable(f)
        /\ RankKey(f) # 0}

\* C13: for every metadata and either category, the entries of the keyboard
\* are in non-increasing order of rank_key (bitrate for audio, vertical
\* resolution for video): no entry has a greater rank_key than the entry
\* before it.
C13_NonIncreasingRankKey ==
    KeyboardBuilt =>
        \A i \in 1..(Len(call.keyboard) - 1) :
            RankKey(EncodingOf(call.keyboard[i]))
                >= RankKey(EncodingOf(call.keyboard[i + 1]))

\* C14: the keyboard holds the (at most 5) qualifying encodings of the
\* highest rank_key: its length is min(5, number of qualifying encodings),
\* its first entry has the maximum rank_key, and no qualifying encoding
\* that was left out has a greater rank_key than one that was returned.
C14_TopFiveByRankKey ==
    KeyboardBuilt =>
        /\ Len(call.keyboard) =
              (IF Cardinality(Qualifying) < 5 THEN Cardinality(Qualifying)
               ELSE 5)
        /\ Len(call.keyboard) > 0 =>
              \A f \in Qualifying :
                  RankKey(f) <= RankKey(EncodingOf(call.keyboard[1]))
        /\ \A f \in Qualifying \ Returned : \A g \in Returned :
              RankKey(f) <= RankKey(g)

(***************************************************************************)
(* Properties of get_platform (ClassifySpec).                              *)
(***************************************************************************)
\* the host of a URL, lowercased and with only a leading "www." label
\* stripped
NormalizedHost(url) ==
    LET host == Lower(NetLoc(url))
    IN  IF StartsWithAt(host, <<"w", "w", "w", ".">>, 1)
        THEN SubSeq(host, 5, Len(host))
        ELSE host

\* C19: for every URL, get_platform returns the platform of a configured
\* host substring exactly when the URL's host, lowercased and with only a
\* leading "www." stripped, contains that substring, and returns None
\* (Unsupported) for every other URL.
C19_ClassifyByHostSubstring ==
    call.fn = "get_platform" =>
        LET matches == {i \in 1..Len(supported_platforms) :
                          Contains(NormalizedHost(call.url),
                                   supported_platforms[i][1])}
        IN  IF matches = {} THEN call.platform = NoPlatform
            ELSE \E i \in matches : call.platform = supported_platforms[i][2]

=============================================================================
